---- MODULE Spec2Model ----
(***************************************************************************)
(* LyricCloze-Gen: the UI session of src/App.tsx, the request client of    *)
(* src/services/geminiService.ts, the /api/generate handler of             *)
(* src/server.js, and the layout classifiers of src/App.tsx and of the     *)
(* earlier revision src/unnamed/part_004.                                  *)
(*                                                                         *)
(* A string is a sequence of one-character strings, so that length, trim   *)
(* and the line-break regex are computed and not assumed.                  *)
(***************************************************************************)
EXTENDS Integers, Sequences, FiniteSets, TLC

VARIABLES
    appState,         \* App.tsx:6   useState<AppState>
    songData,         \* App.tsx:7   useState<SongData>
    result,           \* App.tsx:13  useState<ClozeResult | null>, as the JSON value stored
    error,            \* App.tsx:14  useState<string | null>
    uiCrashed,        \* a render of App threw: React has unmounted the tree
    inflight,         \* the generateClozeGame calls awaiting their response
    fetchCount,       \* number of fetch('/api/generate') requests issued
    acceptedSubmits,  \* number of handleSubmit runs that passed the lyrics check
    aiConfigured,     \* server.js:24  ai is non-null (an API key was found)
    readers,          \* App.tsx:86  the FileReaders whose onloadend has not fired yet
    uploadCount,      \* number of files chosen in the file input
    recentDownloads,  \* App.tsx:228-236  the two files last exported from the worksheet on screen
    lastImageAction,  \* what the user last did about the cover: the file chosen, or its removal
    postIn,           \* the lines the upstream model returned to the handler
    postOut,          \* the lines the handler puts in its response
    baseLines,        \* a worksheet's lines L
    moreLines,        \* further lines M appended to L
    exportIn,         \* the SongData and ClozeResult a worksheet is made from
    exportOut         \* their profile, download and on-screen worksheet

deviceVars == <<readers, uploadCount, recentDownloads, lastImageAction>>
sessionVars == <<appState, songData, result, error, uiCrashed, inflight,
                 fetchCount, acceptedSubmits, aiConfigured, deviceVars>>
postVars == <<postIn, postOut>>
layoutVars == <<baseLines, moreLines>>
exportVars == <<exportIn, exportOut>>
vars == <<sessionVars, postVars, layoutVars, exportVars>>

-----------------------------------------------------------------------------
(* Bounds of the model.                                                    *)

MaxLineLen == 4
MaxRawLines == 2
MaxLyricsLen == 1
MaxSubmits == 2
MaxBaseLines == 80
MaxMoreLines == 2
MaxUploads == 1
MaxTitleLen == 3
MaxExportLines == 3
MaxCoverUploads == 3

-----------------------------------------------------------------------------
(* Strings.                                                                *)

Char == {"a", " ", "\n", "\r"}

StringsUpTo(alphabet, n) == UNION {[1..k -> alphabet] : k \in 0..n}

SeqsUpTo(S, n) == UNION {[1..k -> S] : k \in 0..n}

IsLineBreak(c) == c \in {"\r", "\n"}

IsWhiteSpace(c) == c \in {" ", "\n", "\r"}

RECURSIVE skipLineBreaks(_)
skipLineBreaks(s) ==
    IF s # <<>> /\ IsLineBreak(Head(s)) THEN skipLineBreaks(Tail(s)) ELSE s

\* A variant of replaceLineBreakRuns: the regex without its '+', /[\r\n]/g.
replaceEachLineBreak(s) ==
    [i \in 1..Len(s) |-> IF IsLineBreak(s[i]) THEN " " ELSE s[i]]

RECURSIVE replaceLineBreakRuns(_)
replaceLineBreakRuns(s) ==
    IF s = <<>> THEN <<>>
    ELSE IF IsLineBreak(Head(s))
         THEN <<" ">> \o replaceLineBreakRuns(skipLineBreaks(Tail(s)))
         ELSE <<Head(s)>> \o replaceLineBreakRuns(Tail(s))

RECURSIVE trimStart(_)
trimStart(s) ==
    IF s # <<>> /\ IsWhiteSpace(Head(s)) THEN trimStart(Tail(s)) ELSE s

RECURSIVE trimEnd(_)
trimEnd(s) ==
    IF s # <<>> /\ IsWhiteSpace(s[Len(s)])
    THEN trimEnd(SubSeq(s, 1, Len(s) - 1))
    ELSE s

trim(s) == trimEnd(trimStart(s))

cleanLine(line) == trim(replaceLineBreakRuns(line))

\* A variant of postProcessLines: the lines are trimmed and filtered, the
\* line breaks inside them are left in place.
postProcessLinesTrimOnly(ls) ==
    SelectSeq([i \in 1..Len(ls) |-> trim(ls[i])], LAMBDA l : Len(l) > 0)

postProcessLines(ls) ==
    SelectSeq([i \in 1..Len(ls) |-> cleanLine(ls[i])], LAMBDA l : Len(l) > 0)

-----------------------------------------------------------------------------
(* JSON values, as far as the handler and the UI look into them.           *)

JsonNull == [type |-> "null"]
JsonFalsy == [type |-> "falsy"]
JsonScalar == [type |-> "scalar"]
JsonNoLines == [type |-> "object", lines |-> "absent"]
JsonNonArrayLines == [type |-> "object", lines |-> "nonarray"]
JsonBadArrayLines == [type |-> "object", lines |-> "badarray"]
JsonWithLines(ls) == [type |-> "object", lines |-> "array", items |-> ls]
\* An object with lines and an answerKey of n words; the words themselves are
\* not looked at by the handler, the client or the UI.
JsonCloze(ls, n) == [type |-> "object", lines |-> "array", items |-> ls, answerKey |-> n]
JsonError(msg) == [type |-> "object", lines |-> "absent", error |-> msg]

Truthy(v) == v.type \notin {"null", "falsy"}

HasLinesArray(v) == v.type = "object" /\ v.lines = "array"

-----------------------------------------------------------------------------
(* The upstream model and the /api/generate handler (src/server.js).       *)

\* Raw lines the upstream model may put in "lines": empty, plain, only line
\* breaks, a trailing break, an embedded CR LF, only blanks.
SampleRawLines ==
    { <<>>, <<"a">>, <<"\n">>, <<"a", "\n">>, <<"a", "\r", "\n", "a">>, <<" ">> }

\* The "lines" arrays the upstream model may return to a session: none, one
\* clean line, lines that post-processing rewrites, lines it drops, and an
\* array of which nothing is left.
SampleLineArrays ==
    { <<>>,
      << <<"a">> >>,
      << <<"a", "\n">>, <<"\n">> >>,
      << <<" ">>, <<"a", "\r", "\n", "a">> >>,
      << <<>>, <<" ">> >> }

\* The numbers of words the upstream model may put in "answerKey": fewer than
\* the prompt's 10 to 15 (server.js:59), within them, and more.
AnswerKeySizes == {9, 12, 16}

\* The values JSON.parse may give for the upstream text. The response schema
\* asks for an object with lines, answerKey and wordBank; the handler does not
\* rely on it (server.js:89 tests result.lines), so neither does the model.
UpstreamJson ==
    {JsonNull, JsonFalsy, JsonScalar, JsonNoLines, JsonNonArrayLines, JsonBadArrayLines}
        \cup {JsonWithLines(ls) : ls \in SampleLineArrays}
        \cup {JsonCloze(ls, n) : ls \in SampleLineArrays, n \in AnswerKeySizes}

UpstreamErrorMessages == {"", "429 quota exceeded"}

\* What ai.models.generateContent does: it throws, or returns a response whose
\* text is empty, is not JSON, or is JSON.
UpstreamReplies ==
    {[outcome |-> "throw", message |-> m] : m \in UpstreamErrorMessages}
        \cup {[outcome |-> "text", kind |-> "empty"], [outcome |-> "text", kind |-> "invalid"]}
        \cup {[outcome |-> "text", kind |-> "json", value |-> v] : v \in UpstreamJson}

Response(status, value) == [status |-> status, parses |-> TRUE, value |-> value]

NonJsonResponse(status) == [status |-> status, parses |-> FALSE]

\* server.js:99  error.message || 'Internal Server Error'
errorResponse(message) ==
    Response(500, JsonError(IF message = "" THEN "Internal Server Error" ELSE message))

\* server.js:27-101: the response sent for a request carrying `lyrics` when the
\* upstream call, if it is made, behaves as `reply`.
generateHandler(lyrics, reply) ==
    IF ~aiConfigured
    THEN Response(500, JsonError("API Key not configured on server."))
    ELSE IF lyrics = <<>>
    THEN Response(400, JsonError("Lyrics are required"))
    ELSE IF reply.outcome = "throw"
    THEN errorResponse(reply.message)
    ELSE IF reply.kind = "empty"
    THEN errorResponse("No response from AI")
    ELSE IF reply.kind = "invalid"
    THEN errorResponse("Unexpected token in JSON")
    ELSE LET parsed == reply.value IN
         IF parsed.type = "null"
         THEN errorResponse("Cannot read properties of null (reading 'lines')")
         ELSE IF parsed.type # "object" \/ parsed.lines = "absent"
         THEN Response(200, parsed)
         ELSE IF parsed.lines = "nonarray"
         THEN errorResponse("result.lines.map is not a function")
         ELSE IF parsed.lines = "badarray"
         THEN errorResponse("line.replace is not a function")
         ELSE Response(200, [parsed EXCEPT !.items = postProcessLines(parsed.items)])

\* server.js:27-101  one request to the Express route: the responses sent and
\* the number of times ai.models.generateContent (lines 73-82) is invoked.
\* Line 28 and line 35 return before the call.
serverRun(lyrics, reply) ==
    [ran |-> TRUE,
     responses |-> <<generateHandler(lyrics, reply)>>,
     calls |-> IF ~aiConfigured \/ lyrics = <<>> THEN 0 ELSE 1]

\* The request methods that reach a function deployed under /api.
Methods == {"POST", "GET"}

\* api/generate.js:6-100  one request to the deployed function. The client is
\* constructed at module load from process.env.API_KEY whether or not it is set
\* (line 6); the handler has no test of the key. With the key unset the
\* constructor either throws, and the function never runs, or gives a client
\* whose call fails: `clientConstructed` is that outcome.
handler(method, lyrics, clientConstructed, reply) ==
    IF ~aiConfigured /\ ~clientConstructed
    THEN [ran |-> FALSE, responses |-> <<>>, calls |-> 0]
    ELSE IF method # "POST"
    THEN [ran |-> TRUE, calls |-> 0,
          responses |-> <<Response(405, JsonError("Method Not Allowed"))>>]
    ELSE IF lyrics = <<>>
    THEN [ran |-> TRUE, calls |-> 0,
          responses |-> <<Response(400, JsonError("Lyrics are required"))>>]
    ELSE [ran |-> TRUE, calls |-> 1,
          responses |->
              << IF reply.outcome = "throw"
                 THEN errorResponse(reply.message)
                 ELSE IF reply.kind = "empty"
                 THEN errorResponse("No response from AI")
                 ELSE IF reply.kind = "invalid"
                 THEN errorResponse("Unexpected token in JSON")
                 ELSE LET parsed == reply.value IN
                      IF parsed.type = "null"
                      THEN errorResponse("Cannot read properties of null (reading 'lines')")
                      ELSE IF parsed.type # "object" \/ parsed.lines = "absent"
                      THEN Response(200, parsed)
                      ELSE IF parsed.lines = "nonarray"
                      THEN errorResponse("result.lines.map is not a function")
                      ELSE IF parsed.lines = "badarray"
                      THEN errorResponse("line.replace is not a function")
                      ELSE Response(200, [parsed EXCEPT
                                             !.items = postProcessLines(parsed.items)]) >>]

-----------------------------------------------------------------------------
(* The request client (src/services/geminiService.ts).                     *)

ServerErrorText(status) ==
    CASE status = 400 -> "Server error: 400"
      [] status = 500 -> "Server error: 500"
      [] status = 504 -> "Server error: 504"
      [] OTHER -> "Server error"

ResponseOk(resp) == resp.status \in 200..299

\* A variant of generateClozeGame: the body of a non-success response is not
\* read, the error always carries the status.
generateClozeGameDropsMessage(resp) ==
    IF ~ResponseOk(resp)
    THEN [threw |-> TRUE, message |-> ServerErrorText(resp.status)]
    ELSE IF ~resp.parses
    THEN [threw |-> TRUE, message |-> "Unexpected token in JSON"]
    ELSE [threw |-> FALSE, data |-> resp.value]

\* A variant of generateClozeGame: response.ok is not looked at.
generateClozeGameIgnoreStatus(resp) ==
    IF ~resp.parses
    THEN [threw |-> TRUE, message |-> "Unexpected token in JSON"]
    ELSE [threw |-> FALSE, data |-> resp.value]

\* geminiService.ts:18-24: what generateClozeGame does with a response. A body
\* that does not parse stands for {} (the .catch of line 19); errorData.error of
\* a null body is a TypeError.
generateClozeGame(resp) ==
    IF ~ResponseOk(resp)
    THEN [threw |-> TRUE,
          message |-> IF resp.parses /\ resp.value.type = "null"
                      THEN "Cannot read properties of null (reading 'error')"
                      ELSE IF resp.parses /\ resp.value.type = "object"
                              /\ "error" \in DOMAIN resp.value /\ resp.value.error # ""
                      THEN resp.value.error
                      ELSE ServerErrorText(resp.status)]
    ELSE IF ~resp.parses
    THEN [threw |-> TRUE, message |-> "Unexpected token in JSON"]
    ELSE [threw |-> FALSE, data |-> resp.value]

-----------------------------------------------------------------------------
(* The UI session (src/App.tsx).                                           *)

IDLE == "IDLE"
GENERATING == "GENERATING"
READY == "READY"
ERROR == "ERROR"
AppStates == {IDLE, GENERATING, READY, ERROR}

NoError == "<null>"
PleaseEnterLyrics == "Please enter lyrics."
FailedToGenerate == "Failed to generate the game. Please try again."

LyricsInputs == StringsUpTo({"a", " "}, MaxLyricsLen)

\* What the user types in the title and artist fields.
TitleInputs == {<<>>, <<"M", "y">>}

ArtistInputs == {<<>>, <<"a">>}

\* coverImage: null (types.ts:5), or the data URL of a file that was read.
NoImage == "<null>"
Files == {"cover1.png"}

\* What lastImageAction holds besides a chosen file's name: nothing was done
\* yet, the cover was removed, the chosen file could not be read.
NoImageAction == "<none>"
CoverRemoved == "<removed>"
FileUnreadable == "<unreadable>"
DataUrl(file) == "data:image/png;base64," \o file

\* App.tsx:7-12  the initial SongData
InitialSongData ==
    [title |-> <<>>, artist |-> <<>>, originalLyrics |-> <<>>, coverImage |-> NoImage]

\* App.tsx:244  the worksheet is rendered; App.tsx:315 otherwise the form is.
WorksheetShown == ~uiCrashed /\ appState = READY /\ Truthy(result)

FormShown == ~uiCrashed /\ ~(appState = READY /\ Truthy(result))

\* App.tsx:19-30: useMemo throws on a truthy result without a lines array
\* (lines.reduce of a non-array), and React unmounts the tree.
RenderThrows(data) == Truthy(data) /\ ~HasLinesArray(data)

RemoveAt(s, i) == SubSeq(s, 1, i - 1) \o SubSeq(s, i + 1, Len(s))

SessionInit ==
    /\ appState = IDLE
    /\ songData = InitialSongData
    /\ result = JsonNull
    /\ error = NoError
    /\ uiCrashed = FALSE
    /\ inflight = <<>>
    /\ fetchCount = 0
    /\ acceptedSubmits = 0
    /\ aiConfigured \in BOOLEAN
    /\ readers = {}
    /\ uploadCount = 0
    /\ recentDownloads = <<>>
    /\ lastImageAction = NoImageAction

\* App.tsx:78-81  the change handler of the title, artist and lyrics fields
handleInputChange(name, value) ==
    /\ FormShown
    /\ songData' = [songData EXCEPT ![name] = value]
    /\ UNCHANGED <<appState, result, error, uiCrashed, inflight, fetchCount,
                   acceptedSubmits, aiConfigured, deviceVars>>

\* App.tsx:83-92  a file is chosen in the file input (App.tsx:392-400, rendered
\* while no cover is set): a FileReader starts reading it.
handleImageUpload(file) ==
    /\ FormShown
    /\ songData.coverImage = NoImage
    /\ readers' = readers \cup {[id |-> uploadCount + 1, file |-> file]}
    /\ uploadCount' = uploadCount + 1
    /\ lastImageAction' = file
    /\ UNCHANGED <<appState, songData, result, error, uiCrashed, inflight, fetchCount,
                   acceptedSubmits, aiConfigured, recentDownloads>>

\* App.tsx:87-89  onloadend of a reader: reader.result is the data URL, or
\* null when the read failed. Nothing is set once the tree is unmounted.
readerLoadEnd(reader, readResult) ==
    /\ reader \in readers
    /\ readers' = readers \ {reader}
    /\ songData' = IF uiCrashed THEN songData
                   ELSE [songData EXCEPT !.coverImage = readResult]
    /\ lastImageAction' =
           IF readResult = NoImage /\ reader.id = uploadCount
              /\ lastImageAction = reader.file
           THEN FileUnreadable
           ELSE lastImageAction
    /\ UNCHANGED <<appState, result, error, uiCrashed, inflight, fetchCount,
                   acceptedSubmits, aiConfigured, uploadCount, recentDownloads>>

\* App.tsx:376  the button on the cover preview
removeCoverImage ==
    /\ FormShown
    /\ songData.coverImage # NoImage
    /\ songData' = [songData EXCEPT !.coverImage = NoImage]
    /\ lastImageAction' = CoverRemoved
    /\ UNCHANGED <<appState, result, error, uiCrashed, inflight, fetchCount,
                   acceptedSubmits, aiConfigured, readers, uploadCount, recentDownloads>>

\* A variant of SubmitEnabled: the button is never disabled.
SubmitAlwaysEnabled == TRUE

\* App.tsx:420  disabled={appState === AppState.GENERATING}
SubmitEnabled == appState # GENERATING

\* A variant of handleSubmit: the lyrics are checked without trim().
handleSubmitNoTrim ==
    IF songData.originalLyrics = <<>>
    THEN /\ error' = PleaseEnterLyrics
         /\ UNCHANGED <<appState, songData, result, uiCrashed, inflight, fetchCount,
                        acceptedSubmits, aiConfigured, deviceVars>>
    ELSE /\ acceptedSubmits < MaxSubmits
         /\ appState' = GENERATING
         /\ error' = NoError
         /\ inflight' = Append(inflight,
                               [phase |-> "request", lyrics |-> songData.originalLyrics])
         /\ fetchCount' = fetchCount + 1
         /\ acceptedSubmits' = acceptedSubmits + 1
         /\ UNCHANGED <<songData, result, uiCrashed, aiConfigured, deviceVars>>

\* App.tsx:94-105, up to the await: the lyrics check, then the fetch of
\* geminiService.ts:10-16.
handleSubmit ==
    IF trim(songData.originalLyrics) = <<>>
    THEN /\ error' = PleaseEnterLyrics
         /\ UNCHANGED <<appState, songData, result, uiCrashed, inflight, fetchCount,
                        acceptedSubmits, aiConfigured, deviceVars>>
    ELSE /\ acceptedSubmits < MaxSubmits
         /\ appState' = GENERATING
         /\ error' = NoError
         /\ inflight' = Append(inflight,
                               [phase |-> "request", lyrics |-> songData.originalLyrics])
         /\ fetchCount' = fetchCount + 1
         /\ acceptedSubmits' = acceptedSubmits + 1
         /\ UNCHANGED <<songData, result, uiCrashed, aiConfigured, deviceVars>>

\* App.tsx:323  the form's onSubmit. The submit button is the form's only
\* submitter, so a disabled button leaves no way to submit. The inputs'
\* `required` attributes only narrow the values handleSubmit is run with; the
\* handler's own check is modelled for every value of the lyrics.
Submit == FormShown /\ SubmitEnabled /\ handleSubmit

\* A variant of handleReset: the "Edit / New" button is rendered in every view.
handleResetAnyView ==
    /\ ~uiCrashed
    /\ appState' = IDLE
    /\ result' = JsonNull
    /\ recentDownloads' = <<>>
    /\ UNCHANGED <<songData, error, uiCrashed, inflight, fetchCount, acceptedSubmits,
                   aiConfigured, readers, uploadCount, lastImageAction>>

\* A variant of handleReset: the form is emptied as well.
handleResetClearsSong ==
    /\ WorksheetShown
    /\ appState' = IDLE
    /\ result' = JsonNull
    /\ recentDownloads' = <<>>
    /\ songData' = InitialSongData
    /\ UNCHANGED <<error, uiCrashed, inflight, fetchCount, acceptedSubmits,
                   aiConfigured, readers, uploadCount, lastImageAction>>

\* App.tsx:239-242, reachable from the worksheet's "Edit / New" button (App.tsx:248)
handleReset ==
    /\ WorksheetShown
    /\ appState' = IDLE
    /\ result' = JsonNull
    /\ recentDownloads' = <<>>
    /\ UNCHANGED <<songData, error, uiCrashed, inflight, fetchCount, acceptedSubmits,
                   aiConfigured, readers, uploadCount, lastImageAction>>

\* The handler answers request i.
ServerRespond(i) ==
    /\ inflight[i].phase = "request"
    /\ \E reply \in UpstreamReplies :
          inflight' = [inflight EXCEPT ![i] =
                          [phase |-> "response", lyrics |-> inflight[i].lyrics,
                           response |-> generateHandler(inflight[i].lyrics, reply)]]
    /\ UNCHANGED <<appState, songData, result, error, uiCrashed, fetchCount,
                   acceptedSubmits, aiConfigured, deviceVars>>

\* Something in front of the handler answers request i: a gateway's timeout
\* page, or a static host's fallback page; the body is not JSON.
GatewayRespond(i) ==
    /\ inflight[i].phase = "request"
    /\ \E status \in {200, 504} :
          inflight' = [inflight EXCEPT ![i] =
                          [phase |-> "response", lyrics |-> inflight[i].lyrics,
                           response |-> NonJsonResponse(status)]]
    /\ UNCHANGED <<appState, songData, result, error, uiCrashed, fetchCount,
                   acceptedSubmits, aiConfigured, deviceVars>>

\* App.tsx:108-111  the catch block of handleSubmit
handleSubmitCatch ==
    /\ error' = IF uiCrashed THEN error ELSE FailedToGenerate
    /\ appState' = IF uiCrashed THEN appState ELSE ERROR
    /\ UNCHANGED <<result, uiCrashed>>

\* App.tsx:106-107, and the render that follows
handleSubmitResolved(data) ==
    /\ result' = IF uiCrashed THEN result ELSE data
    /\ appState' = IF uiCrashed THEN appState ELSE READY
    /\ uiCrashed' = (uiCrashed \/ RenderThrows(data))
    /\ UNCHANGED error

\* The response of call i reaches the browser: generateClozeGame returns or
\* rethrows (geminiService.ts:18-29) and handleSubmit continues (App.tsx:105-111).
ClientSettle(i) ==
    /\ inflight[i].phase = "response"
    /\ LET outcome == generateClozeGame(inflight[i].response) IN
          IF outcome.threw THEN handleSubmitCatch ELSE handleSubmitResolved(outcome.data)
    /\ inflight' = RemoveAt(inflight, i)
    /\ UNCHANGED <<songData, fetchCount, acceptedSubmits, aiConfigured, deviceVars>>

\* A variant of NetworkFail: the catch block of generateClozeGame issues the
\* request again instead of rethrowing.
NetworkFailRetry(i) ==
    /\ inflight' = [inflight EXCEPT ![i] =
                       [phase |-> "request", lyrics |-> inflight[i].lyrics]]
    /\ fetchCount' = fetchCount + 1
    /\ UNCHANGED <<appState, songData, result, error, uiCrashed, acceptedSubmits,
                   aiConfigured, deviceVars>>

\* fetch rejects (geminiService.ts:10, 26-29): the error is rethrown to
\* handleSubmit, and no request is issued again.
NetworkFail(i) ==
    /\ handleSubmitCatch
    /\ inflight' = RemoveAt(inflight, i)
    /\ UNCHANGED <<songData, fetchCount, acceptedSubmits, aiConfigured, deviceVars>>

InputStep ==
    \/ \E value \in LyricsInputs :
          handleInputChange("originalLyrics", value) /\ UNCHANGED <<postVars, layoutVars, exportVars>>
    \/ \E value \in TitleInputs :
          handleInputChange("title", value) /\ UNCHANGED <<postVars, layoutVars, exportVars>>
    \/ \E value \in ArtistInputs :
          handleInputChange("artist", value) /\ UNCHANGED <<postVars, layoutVars, exportVars>>

SubmitStep == Submit /\ UNCHANGED <<postVars, layoutVars, exportVars>>

ResetStep == handleReset /\ UNCHANGED <<postVars, layoutVars, exportVars>>

ServerStep ==
    \E i \in DOMAIN inflight : ServerRespond(i) /\ UNCHANGED <<postVars, layoutVars, exportVars>>

GatewayStep ==
    \E i \in DOMAIN inflight : GatewayRespond(i) /\ UNCHANGED <<postVars, layoutVars, exportVars>>

SettleStep ==
    \E i \in DOMAIN inflight : ClientSettle(i) /\ UNCHANGED <<postVars, layoutVars, exportVars>>

NetworkFailStep ==
    \E i \in DOMAIN inflight : NetworkFail(i) /\ UNCHANGED <<postVars, layoutVars, exportVars>>

UploadStep ==
    /\ uploadCount < MaxUploads
    /\ \E file \in Files :
          handleImageUpload(file) /\ UNCHANGED <<postVars, layoutVars, exportVars>>

\* A file is chosen among two, up to MaxCoverUploads times.
CoverFiles == {"cover1.png", "cover2.png"}

CoverUploadStep ==
    /\ uploadCount < MaxCoverUploads
    /\ \E file \in CoverFiles :
          handleImageUpload(file) /\ UNCHANGED <<postVars, layoutVars, exportVars>>

LoadEndStep ==
    \E reader \in readers :
        \E readResult \in {DataUrl(reader.file), NoImage} :
            readerLoadEnd(reader, readResult) /\ UNCHANGED <<postVars, layoutVars, exportVars>>

RemoveImageStep == removeCoverImage /\ UNCHANGED <<postVars, layoutVars, exportVars>>

-----------------------------------------------------------------------------
(* The layout classifier and its style profiles.                           *)

CHARS_PER_VISUAL_LINE == 55

CeilDiv(a, b) == (a + b - 1) \div b

\* A variant of lineUnits: an empty line adds nothing.
lineUnitsSkipEmpty(line) == CeilDiv(Len(line), CHARS_PER_VISUAL_LINE)

\* App.tsx:26-30  the callback of lines.reduce: what one line adds to acc
lineUnits(line) ==
    LET len == Len(line) IN
    IF len = 0 THEN 1 ELSE CeilDiv(len, CHARS_PER_VISUAL_LINE)

\* App.tsx:26-30  lines.reduce((acc, line) => acc + ..., 0) over lines[lo..hi];
\* the additions are grouped by halves, which leaves the sum as it is.
RECURSIVE reduceUnits(_, _, _)
reduceUnits(lines, lo, hi) ==
    IF lo > hi THEN 0
    ELSE IF lo = hi THEN lineUnits(lines[lo])
    ELSE LET mid == (lo + hi) \div 2 IN
         reduceUnits(lines, lo, mid) + reduceUnits(lines, mid + 1, hi)

visualDensity(lines) == reduceUnits(lines, 1, Len(lines))

NullSettings == [textSize |-> "<null>"]

\* App.tsx:34-45
DefaultSettings ==
    [textSize |-> "text-base", lineHeight |-> "leading-relaxed",
     tracking |-> "tracking-normal", titleSize |-> "text-3xl",
     artistSize |-> "text-xl", imageSize |-> "w-28 h-28", headerMb |-> "mb-8",
     padding |-> "p-[20mm]", colGap |-> "gap-12",
     columnCount |-> "columns-1 md:columns-2 print:columns-2"]

\* A variant of DenseSettings: the object literal without its `...settings`.
DenseSettingsNoSpread ==
    [textSize |-> "text-sm", lineHeight |-> "leading-6", colGap |-> "gap-8",
     imageSize |-> "w-24 h-24", titleSize |-> "text-2xl", artistSize |-> "text-lg",
     headerMb |-> "mb-6"]

\* App.tsx:50-59
DenseSettings ==
    [DefaultSettings EXCEPT
        !.textSize = "text-sm", !.lineHeight = "leading-6", !.colGap = "gap-8",
        !.imageSize = "w-24 h-24", !.titleSize = "text-2xl",
        !.artistSize = "text-lg", !.headerMb = "mb-6"]

\* App.tsx:62-72
ShortSettings ==
    [DefaultSettings EXCEPT
        !.textSize = "text-lg", !.lineHeight = "leading-loose",
        !.tracking = "tracking-wide", !.colGap = "gap-0",
        !.columnCount = "max-w-2xl mx-auto", !.imageSize = "w-32 h-32",
        !.titleSize = "text-4xl", !.headerMb = "mb-10"]

\* A variant of layoutSettings: the two threshold branches carry each other's
\* profile.
layoutSettingsSwapped(res) ==
    IF ~Truthy(res) THEN NullSettings
    ELSE LET density == visualDensity(res.items) IN
         IF density > 65 THEN ShortSettings
         ELSE IF density < 25 THEN DenseSettings
         ELSE DefaultSettings

\* App.tsx:19-76
layoutSettings(res) ==
    IF ~Truthy(res) THEN NullSettings
    ELSE LET density == visualDensity(res.items) IN
         IF density > 65 THEN DenseSettings
         ELSE IF density < 25 THEN ShortSettings
         ELSE DefaultSettings

\* part_004:24-35
CountBaseSettings ==
    [titleSize |-> "text-4xl", artistSize |-> "text-xl", imageSize |-> "w-32 h-32",
     headerMb |-> "mb-8", textSize |-> "text-base", lineHeight |-> "leading-normal",
     tracking |-> "tracking-normal", colGap |-> "gap-12",
     columnCount |-> "columns-1 md:columns-2 print:columns-2",
     padding |-> "p-[20mm]"]

\* part_004:41-52
UltraDenseSettings ==
    [CountBaseSettings EXCEPT
        !.textSize = "text-[9px]", !.lineHeight = "leading-[1.3]",
        !.tracking = "tracking-tighter", !.imageSize = "w-14 h-14",
        !.titleSize = "text-lg", !.artistSize = "text-sm", !.headerMb = "mb-2",
        !.padding = "p-[10mm]", !.colGap = "gap-4"]

\* part_004:55-66
CountDenseSettings ==
    [CountBaseSettings EXCEPT
        !.textSize = "text-[11px]", !.lineHeight = "leading-[1.5]",
        !.tracking = "tracking-tight", !.imageSize = "w-16 h-16",
        !.titleSize = "text-xl", !.artistSize = "text-base", !.headerMb = "mb-3",
        !.padding = "p-[12mm]", !.colGap = "gap-5"]

\* part_004:69-79
CompactSettings ==
    [CountBaseSettings EXCEPT
        !.textSize = "text-xs", !.lineHeight = "leading-relaxed",
        !.tracking = "tracking-normal", !.imageSize = "w-20 h-20",
        !.titleSize = "text-2xl", !.headerMb = "mb-5", !.padding = "p-[15mm]",
        !.colGap = "gap-8"]

\* part_004:82-92
CountBalancedSettings ==
    [CountBaseSettings EXCEPT
        !.textSize = "text-sm", !.lineHeight = "leading-[2.0]",
        !.tracking = "tracking-wide", !.imageSize = "w-24 h-24",
        !.titleSize = "text-3xl", !.headerMb = "mb-6", !.padding = "p-[18mm]",
        !.colGap = "gap-10"]

\* part_004:95-105
SpaciousSettings ==
    [CountBaseSettings EXCEPT
        !.textSize = "text-base", !.lineHeight = "leading-[2.5]",
        !.tracking = "tracking-wider", !.imageSize = "w-32 h-32",
        !.titleSize = "text-4xl", !.headerMb = "mb-8", !.padding = "p-[20mm]",
        !.colGap = "gap-12"]

\* part_004:108-120
VeryShortSettings ==
    [CountBaseSettings EXCEPT
        !.textSize = "text-xl", !.lineHeight = "leading-[3]",
        !.tracking = "tracking-widest", !.imageSize = "w-40 h-40",
        !.titleSize = "text-5xl", !.artistSize = "text-3xl", !.headerMb = "mb-12",
        !.padding = "p-[25mm]",
        !.columnCount = "columns-1 max-w-3xl mx-auto print:columns-1",
        !.colGap = "gap-0"]

\* part_004:19-124  the earlier, count-based layoutSettings
layoutSettingsByCount(res) ==
    IF ~Truthy(res) THEN NullSettings
    ELSE LET lineCount == Len(res.items) IN
         IF lineCount > 75 THEN UltraDenseSettings
         ELSE IF lineCount > 60 THEN CountDenseSettings
         ELSE IF lineCount > 50 THEN CompactSettings
         ELSE IF lineCount > 35 THEN CountBalancedSettings
         ELSE IF lineCount > 22 THEN SpaciousSettings
         ELSE VeryShortSettings

-----------------------------------------------------------------------------
(* The export to Word and the on-screen worksheet (src/App.tsx).           *)

\* String.prototype.includes
includes(s, needle) ==
    \E i \in 1..(Len(s) - Len(needle) + 1) : SubSeq(s, i, i + Len(needle) - 1) = needle

Undefined == "<undefined>"

\* object[key]: undefined when the object has no such key
Lookup(object, key) == IF key \in DOMAIN object THEN object[key] ELSE Undefined

\* value || fallback, for values that are undefined or non-empty strings
OrElse(value, fallback) == IF value = Undefined THEN fallback ELSE value

DigitValue(c) ==
    CASE c = "0" -> 0 [] c = "1" -> 1 [] c = "2" -> 2 [] c = "3" -> 3 [] c = "4" -> 4
      [] c = "5" -> 5 [] c = "6" -> 6 [] c = "7" -> 7 [] c = "8" -> 8 [] c = "9" -> 9

\* parseInt of a string of decimal digits
RECURSIVE parseInt(_)
parseInt(s) ==
    IF Len(s) = 0 THEN 0
    ELSE 10 * parseInt(SubSeq(s, 1, Len(s) - 1)) + DigitValue(SubSeq(s, Len(s), Len(s)))

\* A variant of sizeMap: text-sm is given the points of text-base.
sizeMapSmallAsBase ==
    ("text-sm" :> "12pt") @@ ("text-base" :> "12pt") @@ ("text-lg" :> "14pt")
        @@ ("text-xl" :> "16pt") @@ ("text-2xl" :> "18pt") @@ ("text-3xl" :> "24pt")
        @@ ("text-4xl" :> "28pt")

\* App.tsx:124-132
sizeMap ==
    ("text-sm" :> "11pt") @@ ("text-base" :> "12pt") @@ ("text-lg" :> "14pt")
        @@ ("text-xl" :> "16pt") @@ ("text-2xl" :> "18pt") @@ ("text-3xl" :> "24pt")
        @@ ("text-4xl" :> "28pt")

\* App.tsx:139-143
lhMap ==
    ("leading-6" :> "130%") @@ ("leading-relaxed" :> "150%") @@ ("leading-loose" :> "200%")

\* A variant of imgMap: the class numbers are taken for pixels.
imgMapClassNumbers ==
    ("w-24 h-24" :> "24") @@ ("w-28 h-28" :> "28") @@ ("w-32 h-32" :> "32")
        @@ ("w-40 h-40" :> "40")

\* App.tsx:156-161
imgMap ==
    ("w-24 h-24" :> "96") @@ ("w-28 h-28" :> "112") @@ ("w-32 h-32" :> "128")
        @@ ("w-40 h-40" :> "160")

\* A variant of exportCols: the class string is compared, not searched.
exportColsExact(columnCount) == IF columnCount = "columns-2" THEN 2 ELSE 1

\* App.tsx:153  settings.columnCount.includes('columns-2') ? 2 : 1
exportCols(columnCount) == IF includes(columnCount, "columns-2") THEN 2 ELSE 1

WordStylesThrew == [threw |-> TRUE]

\* App.tsx:122-165. settings.tracking.includes and settings.columnCount.includes
\* throw a TypeError when the attribute is undefined.
getWordStyles(settings) ==
    IF Lookup(settings, "tracking") = Undefined \/ Lookup(settings, "columnCount") = Undefined
    THEN WordStylesThrew
    ELSE [threw |-> FALSE,
          fontSize |-> OrElse(Lookup(sizeMap, Lookup(settings, "textSize")), "12pt"),
          titleSize |-> OrElse(Lookup(sizeMap, Lookup(settings, "titleSize")), "24pt"),
          artistSize |-> OrElse(Lookup(sizeMap, Lookup(settings, "artistSize")), "14pt"),
          lineHeight |-> OrElse(Lookup(lhMap, Lookup(settings, "lineHeight")), "150%"),
          letterSpacing |-> IF includes(settings.tracking, "wide") THEN "0.5pt" ELSE "0",
          margin |-> "2.54cm",
          cols |-> exportCols(settings.columnCount),
          imgDim |-> OrElse(Lookup(imgMap, Lookup(settings, "imageSize")), "112")]

\* part_004:172-185
sizeMapEarlier ==
    ("text-[9px]" :> "7pt") @@ ("text-[10px]" :> "7.5pt") @@ ("text-[11px]" :> "8pt")
        @@ ("text-xs" :> "9pt") @@ ("text-sm" :> "10pt") @@ ("text-base" :> "11pt")
        @@ ("text-lg" :> "12pt") @@ ("text-xl" :> "14pt") @@ ("text-2xl" :> "16pt")
        @@ ("text-3xl" :> "20pt") @@ ("text-4xl" :> "24pt") @@ ("text-5xl" :> "32pt")

\* part_004:198-202
lhMapEarlier ==
    ("leading-normal" :> "120%") @@ ("leading-relaxed" :> "140%")
        @@ ("leading-loose" :> "180%")

\* part_004:207-214
trackMap ==
    ("tracking-tighter" :> "-0.05em") @@ ("tracking-tight" :> "-0.025em")
        @@ ("tracking-normal" :> "0") @@ ("tracking-wide" :> "0.05em")
        @@ ("tracking-wider" :> "0.1em") @@ ("tracking-widest" :> "0.2em")

\* part_004:224-230  the if-chain over settings.colGap, as the table it spells
colGapMap ==
    ("gap-4" :> "0.15in") @@ ("gap-5" :> "0.2in") @@ ("gap-6" :> "0.25in")
        @@ ("gap-8" :> "0.35in") @@ ("gap-10" :> "0.4in") @@ ("gap-12" :> "0.5in")

\* part_004:233-242
imgMapEarlier ==
    ("w-14 h-14" :> "56px") @@ ("w-16 h-16" :> "64px") @@ ("w-20 h-20" :> "80px")
        @@ ("w-24 h-24" :> "96px") @@ ("w-28 h-28" :> "112px") @@ ("w-32 h-32" :> "128px")
        @@ ("w-36 h-36" :> "144px") @@ ("w-40 h-40" :> "160px")

\* String.prototype.indexOf(c, from), counted from 1; 0 when c does not occur
RECURSIVE indexOf(_, _, _)
indexOf(s, c, from) ==
    IF from > Len(s) THEN 0
    ELSE IF SubSeq(s, from, from) = c THEN from
    ELSE indexOf(s, c, from + 1)

\* s.match(/\[(.*?)\]/): the text between the first "[" and the first "]"
\* after it; Undefined when the pattern does not match (match returns null).
bracketed(s) ==
    LET open == indexOf(s, "[", 1) IN
    IF open = 0 THEN Undefined
    ELSE LET close == indexOf(s, "]", open + 1) IN
         IF close = 0 THEN Undefined ELSE SubSeq(s, open + 1, close - 1)

\* The decimal digits a string starts with: what parseInt and parseFloat read
\* of "11pt" is "11".
RECURSIVE LeadingDigits(_)
LeadingDigits(s) ==
    IF Len(s) = 0 \/ ~includes("0123456789", SubSeq(s, 1, 1)) THEN ""
    ELSE SubSeq(s, 1, 1) \o LeadingDigits(SubSeq(s, 2, Len(s)))

\* parseFloat of a string that starts with digits, read to its first decimal,
\* in tenths
parseFloatTenths(s) ==
    LET whole == LeadingDigits(s)
        rest == SubSeq(s, Len(whole) + 1, Len(s))
    IN  10 * parseInt(whole)
            + (IF Len(rest) >= 2 /\ SubSeq(rest, 1, 1) = "."
                  /\ LeadingDigits(SubSeq(rest, 2, 2)) # ""
               THEN parseInt(SubSeq(rest, 2, 2))
               ELSE 0)

\* part_004:191-204. Math.floor(val * 100 * 0.9) of a multiplier of v tenths is
\* 9 * v (in doubles as well, for the multipliers the profiles hold);
\* parseFloat of a text that starts with no digit is NaN.
lineHeightEarlier(lineHeight) ==
    IF includes(lineHeight, "[")
    THEN IF LeadingDigits(bracketed(lineHeight)) = "" THEN "NaN%"
         ELSE ToString(9 * parseFloatTenths(bracketed(lineHeight))) \o "%"
    ELSE OrElse(Lookup(lhMapEarlier, lineHeight), "120%")

\* part_004:170-246. settings.lineHeight.includes, settings.padding.match and
\* settings.columnCount.includes throw a TypeError on an undefined attribute,
\* and so does [1] of a "[" that no "]" follows.
getWordStylesEarlier(settings) ==
    IF \/ Lookup(settings, "lineHeight") = Undefined
       \/ Lookup(settings, "padding") = Undefined
       \/ Lookup(settings, "columnCount") = Undefined
       \/ (includes(settings.lineHeight, "[") /\ bracketed(settings.lineHeight) = Undefined)
    THEN WordStylesThrew
    ELSE [threw |-> FALSE,
          fontSize |-> OrElse(Lookup(sizeMapEarlier, Lookup(settings, "textSize")), "11pt"),
          titleSize |-> OrElse(Lookup(sizeMapEarlier, Lookup(settings, "titleSize")), "22pt"),
          artistSize |-> OrElse(Lookup(sizeMapEarlier, Lookup(settings, "artistSize")), "12pt"),
          lineHeight |-> lineHeightEarlier(settings.lineHeight),
          letterSpacing |-> OrElse(Lookup(trackMap, Lookup(settings, "tracking")), "0"),
          margin |-> LET inner == bracketed(settings.padding) IN
                     IF inner = Undefined \/ inner = "" THEN "20mm" ELSE inner,
          cols |-> exportCols(settings.columnCount),
          colGap |-> OrElse(Lookup(colGapMap, Lookup(settings, "colGap")), "0.5in"),
          imgDim |-> OrElse(Lookup(imgMapEarlier, Lookup(settings, "imageSize")), "128px")]

\* App.tsx:122-165 and part_004:170-246: what getWordStyles writes to the
\* console for a profile. Neither revision has a console call or a throw
\* statement in it.
getWordStylesConsole(settings) == <<>>

\* Array.prototype.join('') over parts[lo..hi], grouped by halves.
RECURSIVE joinParts(_, _, _)
joinParts(parts, lo, hi) ==
    IF lo > hi THEN <<>>
    ELSE IF lo = hi THEN parts[lo]
    ELSE LET mid == (lo + hi) \div 2 IN
         joinParts(parts, lo, mid) \o joinParts(parts, mid + 1, hi)

\* A variant of exportParagraph: an empty line gives no markup.
exportParagraphSkipEmpty(line) ==
    IF line = <<>> THEN <<>> ELSE <<"<p>">> \o line \o <<"</p>">>

\* App.tsx:222  `<p>${line === '' ? '&nbsp;' : line}</p>`: the tags and the
\* entity are single elements of the markup, the line's characters follow
\* one by one.
exportParagraph(line) ==
    <<"<p>">> \o (IF line = <<>> THEN <<"&nbsp;">> ELSE line) \o <<"</p>">>

\* App.tsx:222  result.lines.map(...).join('')
exportBody(lines) ==
    joinParts([i \in 1..Len(lines) |-> exportParagraph(lines[i])], 1, Len(lines))

\* App.tsx:216-218  the image element, when songData.coverImage is truthy
exportImages(song, styles) ==
    IF song.coverImage # NoImage
    THEN <<[src |-> song.coverImage, width |-> styles.imgDim, height |-> styles.imgDim,
            alt |-> "Cover"]>>
    ELSE <<>>

\* /[^a-z0-9]/gi: the characters the regex does not match
LowerCaseLetters == "abcdefghijklmnopqrstuvwxyz"
UpperCaseLetters == "ABCDEFGHIJKLMNOPQRSTUVWXYZ"
Digits == "0123456789"

IsAlphaNumeric(c) ==
    includes(LowerCaseLetters, c) \/ includes(UpperCaseLetters, c) \/ includes(Digits, c)

\* A variant of replaceNonAlphaNumeric: the replacement is '' in place of '_'.
stripNonAlphaNumeric(s) == SelectSeq(s, IsAlphaNumeric)

\* .replace(/[^a-z0-9]/gi, '_')
replaceNonAlphaNumeric(s) ==
    [i \in 1..Len(s) |-> IF IsAlphaNumeric(s[i]) THEN s[i] ELSE "_"]

\* String.prototype.toLowerCase, on the characters of a title
toLowerCase(s) ==
    [i \in 1..Len(s) |->
        IF includes(UpperCaseLetters, s[i])
        THEN LET k == CHOOSE k \in 1..26 : SubSeq(UpperCaseLetters, k, k) = s[i]
             IN  SubSeq(LowerCaseLetters, k, k)
        ELSE s[i]]

\* App.tsx:232  link.download
fileName(title) == [stem |-> replaceNonAlphaNumeric(title), suffix |-> "_cloze.doc"]

\* part_004:339  the earlier revision's filename
fileNameEarlier(title) ==
    LET stem == toLowerCase(replaceNonAlphaNumeric(title)) IN
    [stem |-> IF stem = <<>> THEN <<"w", "o", "r", "k", "s", "h", "e", "e", "t">> ELSE stem,
     suffix |-> "_cloze.doc"]

NoDownload == [made |-> FALSE]

\* App.tsx:118-237: the file the browser is told to download, as the values of
\* the template's placeholders (App.tsx:170-226) and the download name; nothing
\* is made without a result (App.tsx:119), nor when getWordStyles throws.
handleExportWord(song, res) ==
    IF ~Truthy(res) \/ ~HasLinesArray(res) THEN NoDownload
    ELSE LET styles == getWordStyles(layoutSettings(res)) IN
         IF styles.threw THEN NoDownload
         ELSE
         [made |-> TRUE,
          type |-> "application/msword",
          headTitle |-> song.title,
          pageMargin |-> styles.margin,
          pageColumns |-> IF styles.cols > 1
                          THEN "mso-columns: " \o ToString(styles.cols) \o " even 0.5in;"
                          ELSE "",
          bodyFontSize |-> styles.fontSize,
          bodyLineHeight |-> styles.lineHeight,
          bodyLetterSpacing |-> styles.letterSpacing,
          h1FontSize |-> styles.titleSize,
          h2FontSize |-> styles.artistSize,
          imgCssEdge |-> styles.imgDim \o "px",
          h1 |-> song.title,
          h2 |-> song.artist,
          imageCellWidth |-> parseInt(styles.imgDim) + 20,
          images |-> exportImages(song, styles),
          body |-> exportBody(res.items),
          download |-> fileName(song.title)]

\* Tailwind's spacing scale: w-N is N quarter-rems, 4N pixels at the default
\* root font size. The classes here are "w-NN h-NN".
slotEdgePx(imageSize) == 4 * parseInt(SubSeq(imageSize, 3, 4))

\* App.tsx:299-303  one <p> per line, keyed by its index
screenParagraphs(lines) ==
    [idx \in 1..Len(lines) |->
        [key |-> idx - 1, text |-> IF lines[idx] = <<>> THEN <<"U+00A0">> ELSE lines[idx]]]

\* App.tsx:244-313  the worksheet view
renderWorksheet(song, res) ==
    LET settings == layoutSettings(res) IN
    [h1 |-> IF song.title = <<>> THEN <<"Untitled Song">> ELSE song.title,
     h2 |-> IF song.artist = <<>> THEN <<"Unknown Artist">> ELSE song.artist,
     imageSlot |-> Lookup(settings, "imageSize"),
     images |-> IF song.coverImage # NoImage
                THEN <<[src |-> song.coverImage, alt |-> "Album Cover"]>>
                ELSE <<>>,
     placeholders |-> IF song.coverImage # NoImage THEN 0 ELSE 1,
     mainClasses |-> <<Lookup(settings, "textSize"), Lookup(settings, "lineHeight"),
                       Lookup(settings, "tracking"), Lookup(settings, "columnCount"),
                       Lookup(settings, "colGap")>>,
     paragraphs |-> screenParagraphs(res.items)]

-----------------------------------------------------------------------------
(* The worksheet's buttons (src/App.tsx) and the session's steps.          *)

\* A variant of ExportWord: the cover is dropped from SongData once the file
\* is handed over.
ExportWordDropsCover ==
    /\ WorksheetShown
    /\ LET file == handleExportWord(songData, result)
           made == [songData |-> songData, result |-> result, file |-> file]
       IN  recentDownloads' =
               IF ~file.made THEN recentDownloads
               ELSE IF recentDownloads = <<>> THEN <<made>>
               ELSE <<recentDownloads[Len(recentDownloads)], made>>
    /\ songData' = [songData EXCEPT !.coverImage = NoImage]
    /\ UNCHANGED <<appState, result, error, uiCrashed, inflight, fetchCount,
                   acceptedSubmits, aiConfigured, readers, uploadCount, lastImageAction>>

\* App.tsx:252  the "Export to Word" button runs handleExportWord on the
\* current songData and result. The last two files handed to the browser are
\* kept, each with the state it was made from, for as long as the worksheet
\* stays on screen.
ExportWord ==
    /\ WorksheetShown
    /\ LET file == handleExportWord(songData, result)
           made == [songData |-> songData, result |-> result, file |-> file]
       IN  recentDownloads' =
               IF ~file.made THEN recentDownloads
               ELSE IF recentDownloads = <<>> THEN <<made>>
               ELSE <<recentDownloads[Len(recentDownloads)], made>>
    /\ UNCHANGED <<appState, songData, result, error, uiCrashed, inflight, fetchCount,
                   acceptedSubmits, aiConfigured, readers, uploadCount, lastImageAction>>

\* A variant of handlePrint: the worksheet is closed once it is printed.
handlePrintThenReset ==
    /\ WorksheetShown
    /\ appState' = IDLE
    /\ result' = JsonNull
    /\ UNCHANGED <<songData, error, uiCrashed, inflight, fetchCount,
                   acceptedSubmits, aiConfigured, deviceVars>>

\* App.tsx:114-116, from the "Print to PDF" button (App.tsx:258): window.print()
\* and nothing else.
handlePrint ==
    /\ WorksheetShown
    /\ UNCHANGED sessionVars

ExportStep == ExportWord /\ UNCHANGED <<postVars, layoutVars, exportVars>>

PrintStep == handlePrint /\ UNCHANGED <<postVars, layoutVars, exportVars>>

SessionNext ==
    \/ InputStep
    \/ SubmitStep
    \/ ResetStep
    \/ ServerStep
    \/ GatewayStep
    \/ SettleStep
    \/ NetworkFailStep
    \/ UploadStep
    \/ LoadEndStep
    \/ RemoveImageStep
    \/ ExportStep
    \/ PrintStep

-----------------------------------------------------------------------------
(* The classifier applied to worksheets L and to L followed by M.          *)

Line(n) == [i \in 1..n |-> "a"]

Repeat(x, n) == [i \in 1..n |-> x]

BaseLineLens == {0, 19, 40}

MoreLineLens == {0, 1, 55, 56, 111}

ChooseBase ==
    /\ baseLines = <<>>
    /\ moreLines = <<>>
    /\ \E n \in 1..MaxBaseLines, len \in BaseLineLens :
          baseLines' = Repeat(Line(len), n)
    /\ UNCHANGED moreLines

AppendLine ==
    /\ Len(moreLines) < MaxMoreLines
    /\ \E len \in MoreLineLens : moreLines' = Append(moreLines, Line(len))
    /\ UNCHANGED baseLines

-----------------------------------------------------------------------------
(* The export and the worksheet view applied to songs and results.         *)

TitleChar == {"a", "Z", "7", " ", "-"}

ExportLineLens == {0, 19, 40}

ExportSampleLines == {<<>>, <<"a">>, <<"a", " ", "a">>}

SampleSong(title, cover) ==
    [title |-> title, artist |-> <<"a">>, originalLyrics |-> <<"a">>, coverImage |-> cover]

\* The profile, the download and the view made from one song and one result.
ExportCase(song, res) ==
    /\ exportIn = <<>>
    /\ exportIn' = <<[songData |-> song, result |-> res]>>
    /\ exportOut' = <<[settings |-> layoutSettings(res),
                       styles |-> getWordStyles(layoutSettings(res)),
                       file |-> handleExportWord(song, res),
                       screen |-> renderWorksheet(song, res)]>>

ExportTitled ==
    \E title \in StringsUpTo(TitleChar, MaxTitleLen) :
        ExportCase(SampleSong(title, NoImage), JsonWithLines(<< <<"a">> >>))

ExportBlock ==
    \E n \in 1..MaxBaseLines, len \in ExportLineLens, cover \in {NoImage, DataUrl("cover1.png")} :
        ExportCase(SampleSong(<<"Z">>, cover), JsonWithLines(Repeat(Line(len), n)))

ExportMixed ==
    \E ls \in SeqsUpTo(ExportSampleLines, MaxExportLines), cover \in {NoImage, DataUrl("cover1.png")} :
        ExportCase(SampleSong(<<>>, cover), JsonWithLines(ls))

-----------------------------------------------------------------------------
(* getWordStyles applied to profiles, mapped or not.                       *)

\* Class names a profile attribute may hold: the keys of the tables of both
\* revisions, and the bracketed and numbered classes of their profiles.
ProfileValues ==
    DOMAIN sizeMapEarlier \cup DOMAIN lhMap \cup DOMAIN lhMapEarlier \cup DOMAIN trackMap
        \cup DOMAIN imgMapEarlier \cup DOMAIN colGapMap \cup {"leading-[2.0]", "gap-0"}

LookedUpAttributes ==
    {"textSize", "titleSize", "artistSize", "lineHeight", "tracking", "imageSize", "colGap"}

\* One revision's getWordStyles is given a tier's profile with one attribute
\* set to some class name.
ResolveCase ==
    /\ exportIn = <<>>
    /\ \E revision \in {"density", "count"}, attribute \in LookedUpAttributes,
          value \in ProfileValues :
          \E base \in IF revision = "density"
                      THEN {DefaultSettings, DenseSettings, ShortSettings}
                      ELSE {UltraDenseSettings, CountBalancedSettings, VeryShortSettings} :
              LET settings == [base EXCEPT ![attribute] = value] IN
              /\ exportIn' = <<[revision |-> revision, settings |-> settings]>>
              /\ exportOut' = <<[styles |-> IF revision = "density"
                                            THEN getWordStyles(settings)
                                            ELSE getWordStylesEarlier(settings),
                                 console |-> getWordStylesConsole(settings)]>>

-----------------------------------------------------------------------------
(* The handler's post-processing applied to upstream lines.                *)

PostProcessOne ==
    \E s \in StringsUpTo(Char, MaxLineLen) :
        /\ postIn = <<>>
        /\ postIn' = <<s>>
        /\ postOut' = postProcessLines(<<s>>)

PostProcessMany ==
    \E ls \in SeqsUpTo(SampleRawLines, MaxRawLines) :
        /\ postIn = <<>>
        /\ postIn' = ls
        /\ postOut' = postProcessLines(ls)

-----------------------------------------------------------------------------
(* Specifications.                                                         *)

PostIdle == postIn = <<>> /\ postOut = <<>>

LayoutIdle == baseLines = <<>> /\ moreLines = <<>>

ExportIdle == exportIn = <<>> /\ exportOut = <<>>

Init == SessionInit /\ PostIdle /\ LayoutIdle /\ ExportIdle

Next == SessionNext

Spec == Init /\ [][Next]_vars

\* Every issued call eventually settles: the handler answers a request it has
\* received, and a response that has arrived is delivered to the awaiting caller.
FairSpec == Spec /\ WF_vars(ServerStep) /\ WF_vars(SettleStep)

NextLayout ==
    \/ ChooseBase /\ UNCHANGED <<sessionVars, postVars, exportVars>>
    \/ AppendLine /\ UNCHANGED <<sessionVars, postVars, exportVars>>

SpecLayout == Init /\ [][NextLayout]_vars

\* One request to /api/generate, served by the Express route (server.js:27,
\* which only POST reaches) or by the deployed function (api/generate.js:8).
\* A body without `lyrics` and one whose lyrics are "" take the same branch
\* (`!lyrics`, server.js:35, generate.js:17): both are the empty text here.
\* A call made without a key is never answered with text.
HandleRequest ==
    /\ postIn = <<>>
    /\ \E file \in {"server.js", "api/generate.js"}, method \in Methods,
          lyrics \in {<<>>, <<"a">>}, clientConstructed \in BOOLEAN,
          reply \in UpstreamReplies :
          /\ file = "server.js" => method = "POST" /\ clientConstructed = aiConfigured
          /\ aiConfigured => clientConstructed
          /\ ~aiConfigured => reply.outcome = "throw"
          /\ postIn' = <<[file |-> file, method |-> method, lyrics |-> lyrics,
                          reply |-> reply]>>
          /\ postOut' = << IF file = "server.js"
                           THEN serverRun(lyrics, reply)
                           ELSE handler(method, lyrics, clientConstructed, reply) >>

NextPost ==
    \/ PostProcessOne /\ UNCHANGED <<sessionVars, layoutVars, exportVars>>
    \/ PostProcessMany /\ UNCHANGED <<sessionVars, layoutVars, exportVars>>

SpecPost == Init /\ [][NextPost]_vars

NextExport ==
    \/ ExportTitled /\ UNCHANGED <<sessionVars, postVars, layoutVars>>
    \/ ExportBlock /\ UNCHANGED <<sessionVars, postVars, layoutVars>>
    \/ ExportMixed /\ UNCHANGED <<sessionVars, postVars, layoutVars>>

SpecExport == Init /\ [][NextExport]_vars

NextResolve == ResolveCase /\ UNCHANGED <<sessionVars, postVars, layoutVars>>

SpecResolve == Init /\ [][NextResolve]_vars

\* The cover image alone: files are chosen, read and removed.
NextCover == CoverUploadStep \/ LoadEndStep \/ RemoveImageStep

SpecCover == Init /\ [][NextCover]_vars

\* The request handlers alone.
NextHandler == HandleRequest /\ UNCHANGED <<sessionVars, layoutVars, exportVars>>

SpecHandler == Init /\ [][NextHandler]_vars

-----------------------------------------------------------------------------
(* Properties: C1 and C2, the density classifier (SpecLayout).             *)

AllLines == baseLines \o moreLines

AllNonEmpty(ls) == \A i \in DOMAIN ls : ls[i] # <<>>

\* The order of the three density tiers: short < balanced < dense.
DensityRank(settings) ==
    CASE settings = ShortSettings -> 0
      [] settings = DefaultSettings -> 1
      [] settings = DenseSettings -> 2

\* The order of the six count-based tiers, from very short to ultra dense.
CountRank(settings) ==
    CASE settings = VeryShortSettings -> 0
      [] settings = SpaciousSettings -> 1
      [] settings = CountBalancedSettings -> 2
      [] settings = CompactSettings -> 3
      [] settings = CountDenseSettings -> 4
      [] settings = UltraDenseSettings -> 5

\* C1: for every L and every M of non-empty lines, the tier of L followed by M
\* is never looser than the tier of L, under the density classifier and under
\* the count-based one.
C1_ClassifierMonotonic ==
    AllNonEmpty(moreLines) =>
        /\ DensityRank(layoutSettings(JsonWithLines(AllLines)))
               >= DensityRank(layoutSettings(JsonWithLines(baseLines)))
        /\ CountRank(layoutSettingsByCount(JsonWithLines(AllLines)))
               >= CountRank(layoutSettingsByCount(JsonWithLines(baseLines)))

\* Non-empty lines were appended and both classifiers moved to a denser tier.
C1_Witness ==
    /\ moreLines # <<>>
    /\ AllNonEmpty(moreLines)
    /\ DensityRank(layoutSettings(JsonWithLines(baseLines))) = 0
    /\ DensityRank(layoutSettings(JsonWithLines(AllLines))) = 1
    /\ CountRank(layoutSettingsByCount(JsonWithLines(AllLines)))
           > CountRank(layoutSettingsByCount(JsonWithLines(baseLines)))

Max(a, b) == IF a >= b THEN a ELSE b

\* The score as the specification words it, the sum over the lines of
\* ceil(max(1, length)/55): the number of pairs (line, unit of that line).
SpecScore(lines) ==
    LET units(i) == CeilDiv(Max(1, Len(lines[i])), 55)
        lens == {Len(lines[i]) : i \in DOMAIN lines} \cup {1}
        most == CeilDiv(CHOOSE m \in lens : \A k \in lens : k <= m, 55)
    IN  Cardinality({p \in (1..Len(lines)) \X (1..most) : p[2] <= units(p[1])})

\* C2: the visual-density score is the sum over the lines of
\* ceil(max(1, length)/55); the tier is dense exactly when the score is > 65,
\* short exactly when it is < 25, and balanced otherwise.
C2_DensityScoreAndTier ==
    LET score == SpecScore(AllLines)
        settings == layoutSettings(JsonWithLines(AllLines))
    IN  /\ visualDensity(AllLines) = score
        /\ (settings = DenseSettings) <=> (score > 65)
        /\ (settings = ShortSettings) <=> (score < 25)
        /\ (settings = DefaultSettings) <=> (score >= 25 /\ score <= 65)
        /\ (Len(AllLines) = 10 /\ \A i \in DOMAIN AllLines : Len(AllLines[i]) < 20)
               => settings = ShortSettings

\* A score of exactly 65, reached with an empty line and a line of more than 55
\* characters among the lines, is balanced.
C2_Witness ==
    /\ visualDensity(AllLines) = 65
    /\ layoutSettings(JsonWithLines(AllLines)) = DefaultSettings
    /\ \E i \in DOMAIN AllLines : AllLines[i] = <<>>
    /\ \E i \in DOMAIN AllLines : Len(AllLines[i]) > 55

-----------------------------------------------------------------------------
(* Properties: C3, the stored lines (Spec).                                *)

CleanLines(ls) ==
    \A i \in DOMAIN ls :
        /\ ls[i] # <<>>
        /\ \A j \in DOMAIN ls[i] : ~IsLineBreak(ls[i][j])

\* C3: whenever the stored result carries lines, no line holds a carriage
\* return or a line feed and no line is the empty string.
C3_StoredLinesClean ==
    (Truthy(result) /\ HasLinesArray(result)) => CleanLines(result.items)

\* The worksheet holds a line that reached the handler with an embedded CR LF.
C3_Witness ==
    /\ appState = READY
    /\ HasLinesArray(result)
    /\ \E i \in DOMAIN result.items : result.items[i] = <<"a", " ", "a">>

-----------------------------------------------------------------------------
(* Properties: C4, the post-processing step (SpecPost).                    *)

\* A line with each maximal run of line breaks replaced by one blank: position
\* i is kept unless it continues a run.
Collapsed(s) ==
    LET idx == [i \in 1..Len(s) |-> i]
        kept == SelectSeq(idx, LAMBDA i :
                    \/ ~IsLineBreak(s[i])
                    \/ i = 1
                    \/ ~IsLineBreak(s[i - 1]))
    IN  [k \in 1..Len(kept) |-> IF IsLineBreak(s[kept[k]]) THEN " " ELSE s[kept[k]]]

\* A line without its leading and trailing blanks.
Trimmed(t) ==
    LET solid == {i \in 1..Len(t) : t[i] # " "} IN
    IF solid = {} THEN <<>>
    ELSE SubSeq(t, CHOOSE i \in solid : \A j \in solid : i <= j,
                   CHOOSE i \in solid : \A j \in solid : i >= j)

\* The lines that survive, in their original order.
ExpectedPost(raw) ==
    LET idx == [i \in 1..Len(raw) |-> i]
        kept == SelectSeq(idx, LAMBDA i : Trimmed(Collapsed(raw[i])) # <<>>)
    IN  [k \in 1..Len(kept) |-> Trimmed(Collapsed(raw[kept[k]]))]

\* C4: the post-processing replaces every maximal run of CR/LF in a line by
\* one space and trims the line, drops exactly the lines that are then empty,
\* and keeps the others in their order.
C4_PostProcessing == postOut = ExpectedPost(postIn)

\* Of two upstream lines, the one made of a line break is dropped and the one
\* with an embedded CR LF is kept, with one blank in its place.
C4_Witness ==
    /\ Len(postIn) = 2
    /\ \E i \in DOMAIN postIn : postIn[i] = <<"a", "\r", "\n", "a">>
    /\ postOut = << <<"a", " ", "a">> >>

-----------------------------------------------------------------------------
(* Properties: C5 to C10, the UI session (Spec, FairSpec).                 *)

\* C5: a run of handleSubmit with empty or whitespace-only lyrics issues no
\* request, sets error to "Please enter lyrics." and leaves appState and
\* result as they were.
C5_BlankLyricsRejected ==
    [][(SubmitStep /\ trim(songData.originalLyrics) = <<>>) =>
          /\ error' = "Please enter lyrics."
          /\ UNCHANGED <<appState, result, inflight, fetchCount>>]_vars

\* After a failed generation, a submit of whitespace-only lyrics has replaced
\* the message and left the state at ERROR.
C5_Witness ==
    /\ songData.originalLyrics = <<" ">>
    /\ error = PleaseEnterLyrics
    /\ appState = ERROR
    /\ inflight = <<>>

\* The call at position i ends in this step.
Settles(i) == inflight' = RemoveAt(inflight, i)

\* The call failed: no response arrived, or its status is not a success, or
\* its body is not JSON.
CallFailed(call) ==
    \/ call.phase = "request"
    \/ call.response.status \notin 200..299
    \/ ~call.response.parses

\* C6: every generation failure moves appState from GENERATING to ERROR with
\* the fixed message, never to READY.
C6_FailureGoesToError ==
    [][\A i \in DOMAIN inflight :
          (Settles(i) /\ CallFailed(inflight[i])) =>
              /\ appState = GENERATING
              /\ appState' = ERROR
              /\ error' = "Failed to generate the game. Please try again."]_vars

\* A call that the handler answered with a non-success status has settled.
C6_Witness ==
    /\ appState = ERROR
    /\ error = FailedToGenerate
    /\ fetchCount = 1
    /\ inflight = <<>>
    /\ ~aiConfigured

\* C7: at most one generation call is in flight, and one is in flight only
\* while appState is GENERATING.
C7_OneCallInFlight ==
    /\ Len(inflight) <= 1
    /\ (inflight # <<>>) => appState = GENERATING

\* A second submission, made after the first call settled, is in flight.
C7_Witness ==
    /\ Len(inflight) = 1
    /\ acceptedSubmits = 2
    /\ appState = GENERATING

AllowedTransitions ==
    { <<IDLE, GENERATING>>, <<ERROR, GENERATING>>, <<GENERATING, READY>>,
      <<GENERATING, ERROR>>, <<READY, IDLE>> }

\* C8: appState starts at IDLE and changes only by IDLE->GENERATING,
\* ERROR->GENERATING, GENERATING->READY, GENERATING->ERROR and READY->IDLE.
C8_OnlyListedTransitions ==
    /\ appState = IDLE
    /\ [][appState' # appState => <<appState, appState'>> \in AllowedTransitions]_vars

\* C9: while appState is GENERATING only the settling of the call changes it,
\* a settling call leaves GENERATING, and GENERATING leads to READY or ERROR.
C9_GeneratingSettles ==
    /\ [][(appState = GENERATING /\ appState' # GENERATING) =>
             \E i \in DOMAIN inflight : Settles(i)]_vars
    /\ [][(\E i \in DOMAIN inflight : Settles(i)) => appState' \in {READY, ERROR}]_vars
    /\ (appState = GENERATING) ~> (appState \in {READY, ERROR})

\* A generation call has settled with a worksheet while the lyrics were being
\* edited.
C9_Witness ==
    /\ appState = READY
    /\ inflight = <<>>
    /\ fetchCount = 1
    /\ HasLinesArray(result)
    /\ songData.originalLyrics = <<>>

\* C10: the number of requests issued equals the number of accepted
\* submissions, and after a failure no request is in flight.
C10_OneRequestPerSubmit ==
    /\ fetchCount = acceptedSubmits
    /\ (appState = ERROR) => inflight = <<>>

\* Two submissions were accepted and the second call failed too.
C10_Witness ==
    /\ appState = ERROR
    /\ acceptedSubmits = 2
    /\ fetchCount = 2
    /\ inflight = <<>>

-----------------------------------------------------------------------------
(* Properties: C11, the "Edit / New" button (Spec).                        *)

\* C11, as claimed: after handleReset the title, the artist and the lyrics are
\* empty and coverImage is absent, as in the initial state.
C11_ResetClearsSongData ==
    [][ResetStep => songData' = InitialSongData]_vars

\* C11, as amended: handleReset sets appState to IDLE and result to null and
\* leaves the title, the artist, the lyrics and the cover image as they were.
C11_ResetKeepsSongData ==
    [][ResetStep =>
          /\ appState' = IDLE
          /\ result' = JsonNull
          /\ songData' = songData]_vars

\* The form is open again after a worksheet was made, with the title, the
\* lyrics and the cover the worksheet was made from.
C11_Witness ==
    /\ appState = IDLE
    /\ acceptedSubmits = 1
    /\ result = JsonNull
    /\ songData.title = <<"M", "y">>
    /\ songData.originalLyrics = <<"a">>
    /\ songData.coverImage # NoImage

-----------------------------------------------------------------------------
(* Properties: C12, the stored result (Spec).                              *)

\* C12: the stored result changes only when a generation call succeeds, to
\* the value the call returned, or on reset, to null; form edits, image upload
\* and removal, the end of an image read, a rejected submission, a failed
\* call, print and export leave it as it was.
C12_ResultFrame ==
    /\ [][result' # result =>
             \/ /\ appState = GENERATING
                /\ appState' = READY
                /\ \E i \in DOMAIN inflight :
                       /\ Settles(i)
                       /\ ~CallFailed(inflight[i])
                       /\ result' = inflight[i].response.value
             \/ ResetStep /\ result' = JsonNull]_vars
    /\ [][(appState = GENERATING /\ appState' = READY) =>
             \E i \in DOMAIN inflight :
                 Settles(i) /\ result' = inflight[i].response.value]_vars
    /\ [][(InputStep \/ UploadStep \/ LoadEndStep \/ RemoveImageStep
              \/ ExportStep \/ PrintStep \/ NetworkFailStep)
             => result' = result]_vars
    /\ [][(SubmitStep \/ appState' = ERROR) => result' = result]_vars

\* A worksheet was exported and a cover image finished loading afterwards; the
\* stored result is the one the export was made from.
C12_Witness ==
    /\ appState = READY
    /\ HasLinesArray(result)
    /\ result.items # <<>>
    /\ Len(recentDownloads) = 1
    /\ recentDownloads[1].result = result
    /\ recentDownloads[1].songData.coverImage = NoImage
    /\ songData.coverImage # NoImage

-----------------------------------------------------------------------------
(* Properties: C13 to C17, the profiles and the export (SpecExport).       *)

ExportSong == exportIn[1].songData
ExportLines == exportIn[1].result.items
ExportSettings == exportOut[1].settings
ExportStyles == exportOut[1].styles
ExportFile == exportOut[1].file
ExportScreen == exportOut[1].screen

ScreenAttributes ==
    {"textSize", "lineHeight", "tracking", "titleSize", "artistSize", "imageSize",
     "headerMb", "padding", "colGap", "columnCount"}

ExportTextAttributes ==
    {"fontSize", "titleSize", "artistSize", "lineHeight", "letterSpacing", "margin",
     "imgDim"}

\* C13: for every worksheet, the screen profile defines each of the ten screen
\* attributes, getWordStyles returns normally, and each of its eight export
\* attributes has a defined value.
C13_ResolverTotal ==
    exportOut # <<>> =>
        /\ ScreenAttributes \subseteq DOMAIN ExportSettings
        /\ \A a \in ScreenAttributes :
               ExportSettings[a] # Undefined /\ ExportSettings[a] # ""
        /\ ~ExportStyles.threw
        /\ ExportTextAttributes \cup {"cols"} \subseteq DOMAIN ExportStyles
        /\ \A a \in ExportTextAttributes :
               ExportStyles[a] # Undefined /\ ExportStyles[a] # ""
        /\ ExportStyles.cols \in {1, 2}
        /\ ExportFile.made

\* The dense profile was resolved for a worksheet of more than 65 lines.
C13_Witness ==
    /\ exportOut # <<>>
    /\ Len(ExportLines) > 65
    /\ ExportSettings.textSize = "text-sm"
    /\ ExportSettings.padding = "p-[20mm]"
    /\ ExportStyles.fontSize = "11pt"
    /\ ExportStyles.cols = 2

HasColumnsDirective == includes(ExportFile.pageColumns, "mso-columns")

\* C14: the export column count is 1 for the shortest tier and 2 for every
\* other tier, under the density tiers and under the count-based ones; the
\* document carries the mso-columns directive exactly when the count is 2;
\* 80 lines of 40 characters export with it, 10 lines of under 20 without.
C14_ColumnsAndDirective ==
    exportOut # <<>> =>
        /\ ExportStyles.cols = (IF SpecScore(ExportLines) < 25 THEN 1 ELSE 2)
        /\ exportCols(layoutSettingsByCount(exportIn[1].result).columnCount)
               = (IF Len(ExportLines) <= 22 THEN 1 ELSE 2)
        /\ HasColumnsDirective <=> (ExportStyles.cols = 2)
        /\ (Len(ExportLines) = 80 /\ \A i \in DOMAIN ExportLines : Len(ExportLines[i]) = 40)
               => HasColumnsDirective
        /\ (Len(ExportLines) = 10 /\ \A i \in DOMAIN ExportLines : Len(ExportLines[i]) < 20)
               => ~HasColumnsDirective

\* 80 lines of 40 characters were exported in two columns.
C14_Witness ==
    /\ exportOut # <<>>
    /\ Len(ExportLines) = 80
    /\ \A i \in DOMAIN ExportLines : Len(ExportLines[i]) = 40
    /\ ExportStyles.cols = 2
    /\ ExportFile.pageColumns = "mso-columns: 2 even 0.5in;"

ExportTitle == ExportSong.title

AlphaNumerics ==
    {"a", "b", "c", "d", "e", "f", "g", "h", "i", "j", "k", "l", "m", "n", "o", "p", "q",
     "r", "s", "t", "u", "v", "w", "x", "y", "z",
     "A", "B", "C", "D", "E", "F", "G", "H", "I", "J", "K", "L", "M", "N", "O", "P", "Q",
     "R", "S", "T", "U", "V", "W", "X", "Y", "Z",
     "0", "1", "2", "3", "4", "5", "6", "7", "8", "9"}

\* The lower-case form of the characters titles are made of here.
LowerOf(c) == IF c = "Z" THEN "z" ELSE c

\* The title without its characters outside [a-zA-Z0-9], in lower case.
StrippedLowercased(title) ==
    LET idx == [i \in 1..Len(title) |-> i]
        kept == SelectSeq(idx, LAMBDA i : title[i] \in AlphaNumerics)
    IN  [k \in 1..Len(kept) |-> LowerOf(title[kept[k]])]

\* C15, as claimed: the download name is the title with every character
\* outside [a-zA-Z0-9] stripped and the rest lowercased, followed by
\* "_cloze.doc"; for an empty title a default name stands in for the title part.
C15_FileNameStrippedLowercased ==
    exportOut # <<>> =>
        /\ ExportFile.download.suffix = "_cloze.doc"
        /\ ExportTitle # <<>> => ExportFile.download.stem = StrippedLowercased(ExportTitle)
        /\ ExportTitle = <<>> => ExportFile.download.stem # <<>>

\* C15, as amended: the download name is the title with every character
\* outside [a-zA-Z0-9] replaced by an underscore, the case kept, followed by
\* "_cloze.doc", and an empty title gives "_cloze.doc"; the earlier revision
\* lowercased the replaced title and named the file "worksheet_cloze.doc" for
\* an empty title.
C15_FileNameUnderscored ==
    exportOut # <<>> =>
        LET stem == ExportFile.download.stem
            earlier == fileNameEarlier(ExportTitle)
        IN  /\ ExportFile.download.suffix = "_cloze.doc"
            /\ Len(stem) = Len(ExportTitle)
            /\ \A i \in DOMAIN stem :
                   stem[i] = (IF ExportTitle[i] \in AlphaNumerics
                              THEN ExportTitle[i] ELSE "_")
            /\ earlier.suffix = "_cloze.doc"
            /\ ExportTitle = <<>> =>
                   earlier.stem = <<"w", "o", "r", "k", "s", "h", "e", "e", "t">>
            /\ ExportTitle # <<>> =>
                   /\ Len(earlier.stem) = Len(ExportTitle)
                   /\ \A i \in DOMAIN ExportTitle :
                          earlier.stem[i] = (IF ExportTitle[i] \in AlphaNumerics
                                             THEN LowerOf(ExportTitle[i]) ELSE "_")

\* A title with an upper-case letter, a blank and a digit was exported.
C15_Witness ==
    /\ exportOut # <<>>
    /\ ExportTitle = <<"Z", " ", "7">>
    /\ ExportFile.download = [stem |-> <<"Z", "_", "7">>, suffix |-> "_cloze.doc"]

\* C16: the document has an image element exactly when coverImage is present;
\* its width and height attributes are the profile's image edge, which is the
\* pixel edge of the on-screen image slot of the same tier: 96 for w-24, 112
\* for w-28, 128 for w-32.
C16_ImageElement ==
    exportOut # <<>> =>
        /\ Len(ExportFile.images) = (IF ExportSong.coverImage # NoImage THEN 1 ELSE 0)
        /\ \A i \in DOMAIN ExportFile.images :
               /\ ExportFile.images[i].src = ExportSong.coverImage
               /\ ExportFile.images[i].width = ExportStyles.imgDim
               /\ ExportFile.images[i].height = ExportStyles.imgDim
        /\ parseInt(ExportStyles.imgDim) = slotEdgePx(ExportScreen.imageSlot)
        /\ ExportStyles.imgDim =
               (CASE includes(ExportScreen.imageSlot, "w-24") -> "96"
                  [] includes(ExportScreen.imageSlot, "w-28") -> "112"
                  [] includes(ExportScreen.imageSlot, "w-32") -> "128")

\* A dense worksheet with a cover was exported: the element is 96 by 96.
C16_Witness ==
    /\ exportOut # <<>>
    /\ ExportSong.coverImage # NoImage
    /\ ExportScreen.imageSlot = "w-24 h-24"
    /\ Len(ExportFile.images) = 1
    /\ ExportFile.images[1].width = "96"
    /\ ExportFile.images[1].height = "96"

\* The positions of a tag in a body of markup, in increasing order.
TagPositions(body, tag) ==
    SelectSeq([i \in 1..Len(body) |-> i], LAMBDA i : body[i] = tag)

\* The body is a run of paragraphs and nothing else: it opens with <p>, every
\* <p> is closed before the next one opens, and nothing lies between them.
ParagraphsOnly(body) ==
    LET opens == TagPositions(body, "<p>")
        closes == TagPositions(body, "</p>")
    IN  /\ Len(opens) = Len(closes)
        /\ \A k \in DOMAIN opens :
               /\ opens[k] < closes[k]
               /\ opens[k] = (IF k = 1 THEN 1 ELSE closes[k - 1] + 1)
        /\ (body # <<>>) => closes[Len(closes)] = Len(body)

\* The contents of the paragraphs of a body, in document order.
ParagraphTexts(body) ==
    LET opens == TagPositions(body, "<p>")
        closes == TagPositions(body, "</p>")
    IN  [k \in 1..Len(opens) |-> SubSeq(body, opens[k] + 1, closes[k] - 1)]

-----------------------------------------------------------------------------
(* Properties: C18, export and print (Spec).                               *)

\* C18: export and print leave appState, songData, result and error as they
\* were, and two exports made from the same songData and result, with no
\* change of state between them, give the same document and the same name.
C18_ExportRepeatable ==
    /\ [][(ExportStep \/ PrintStep) => UNCHANGED <<appState, songData, result, error>>]_vars
    /\ [][ExportStep =>
             /\ recentDownloads' # <<>>
             /\ recentDownloads'[Len(recentDownloads')].songData = songData'
             /\ recentDownloads'[Len(recentDownloads')].result = result']_vars
    /\ [](Len(recentDownloads) = 2 =>
             ((/\ recentDownloads[1].songData = recentDownloads[2].songData
               /\ recentDownloads[1].result = recentDownloads[2].result)
                 => recentDownloads[1].file = recentDownloads[2].file))

\* A worksheet with a cover image was exported twice in a row.
C18_Witness ==
    /\ Len(recentDownloads) = 2
    /\ recentDownloads[1].songData = songData
    /\ recentDownloads[2].songData = songData
    /\ recentDownloads[1].result = result
    /\ recentDownloads[1].file = recentDownloads[2].file
    /\ recentDownloads[2].file.images # <<>>
    /\ recentDownloads[2].file.body # <<>>

-----------------------------------------------------------------------------
(* Properties: C19, the answer key (Spec).                                 *)

\* C19: whenever a generation has brought appState to READY with a result that
\* carries an answerKey, the answerKey has between 10 and 15 words.
C19_AnswerKeyInRange ==
    (appState = READY /\ Truthy(result) /\ "answerKey" \in DOMAIN result)
        => result.answerKey \in 10..15

-----------------------------------------------------------------------------
(* Properties: C20, the message of a non-success response (Spec).          *)

\* The response is not a success and its body is an object with a non-empty
\* "error" field.
CarriesMessage(resp) ==
    /\ resp.status \notin 200..299
    /\ resp.parses
    /\ resp.value.type = "object"
    /\ "error" \in DOMAIN resp.value
    /\ resp.value.error # ""

\* The response is not a success and carries no message.
CarriesNoMessage(resp) == resp.status \notin 200..299 /\ ~CarriesMessage(resp)

AnsweredCall(i) == Settles(i) /\ inflight[i].phase = "response"

\* C20, as claimed: when a non-success response with a message field settles,
\* the UI's error holds that message; without the field it holds a fallback.
C20_ErrorShowsServerMessage ==
    [][\A i \in DOMAIN inflight :
          /\ (AnsweredCall(i) /\ CarriesMessage(inflight[i].response))
                 => error' = inflight[i].response.value.error
          /\ (AnsweredCall(i) /\ CarriesNoMessage(inflight[i].response))
                 => error' \notin {NoError, PleaseEnterLyrics}]_vars

\* C20, as amended: when a non-success response settles, the error that
\* generateClozeGame throws holds the response's message field verbatim, or
\* "Server error: <status>" without the field; the UI's error holds the fixed
\* "Failed to generate the game. Please try again." in both cases.
C20_ErrorShowsFixedMessage ==
    [][\A i \in DOMAIN inflight :
          LET resp == inflight[i].response
              thrown == generateClozeGame(resp)
          IN  /\ (AnsweredCall(i) /\ CarriesMessage(resp)) =>
                     /\ thrown.threw
                     /\ thrown.message = resp.value.error
                     /\ error' = "Failed to generate the game. Please try again."
                     /\ appState' = ERROR
              /\ (AnsweredCall(i) /\ CarriesNoMessage(resp)) =>
                     /\ thrown.threw
                     /\ thrown.message = ServerErrorText(resp.status)
                     /\ error' = "Failed to generate the game. Please try again."
                     /\ appState' = ERROR]_vars

\* The handler has answered the second call of a session with status 500 and
\* the upstream error's message, after a first call failed.
C20_Witness ==
    /\ acceptedSubmits = 2
    /\ appState = GENERATING
    /\ Len(inflight) = 1
    /\ inflight[1].phase = "response"
    /\ inflight[1].response.status = 500
    /\ inflight[1].response.parses
    /\ inflight[1].response.value.error = "429 quota exceeded"

-----------------------------------------------------------------------------
(* Properties: C21 to C25, the screen and export profiles of the tiers.    *)

Number(s) == parseInt(LeadingDigits(s))

DensityProfile(lines) == layoutSettings(JsonWithLines(lines))

CountProfile(lines) == layoutSettingsByCount(JsonWithLines(lines))

DensityStyles(lines) == getWordStyles(DensityProfile(lines))

CountStyles(lines) == getWordStylesEarlier(CountProfile(lines))

ComparedAttributes == {"fontSize", "lineHeight", "titleSize", "artistSize", "imgDim"}

NoLarger(denser, looser) ==
    \A a \in ComparedAttributes : Number(denser[a]) <= Number(looser[a])

\* C21: of two worksheets whose tiers are ordered, under the density tiers and
\* under the count-based ones, the denser tier's export body font size, line
\* height, title size, artist size and image edge are no larger than the
\* looser tier's, and its body font size is strictly smaller when the tiers
\* differ.
C21_ProfilesOrdered ==
    baseLines # <<>> =>
        /\ DensityRank(DensityProfile(AllLines)) >= DensityRank(DensityProfile(baseLines))
               => NoLarger(DensityStyles(AllLines), DensityStyles(baseLines))
        /\ DensityRank(DensityProfile(AllLines)) > DensityRank(DensityProfile(baseLines))
               => Number(DensityStyles(AllLines).fontSize)
                      < Number(DensityStyles(baseLines).fontSize)
        /\ CountRank(CountProfile(AllLines)) >= CountRank(CountProfile(baseLines))
               => NoLarger(CountStyles(AllLines), CountStyles(baseLines))
        /\ CountRank(CountProfile(AllLines)) > CountRank(CountProfile(baseLines))
               => Number(CountStyles(AllLines).fontSize)
                      < Number(CountStyles(baseLines).fontSize)

\* A short worksheet grew into the balanced tier and its body font went from
\* 14pt to 12pt, while the count-based tier went from very short to spacious
\* and its body font from 14pt to 11pt.
C21_Witness ==
    /\ DensityRank(DensityProfile(baseLines)) = 0
    /\ DensityRank(DensityProfile(AllLines)) = 1
    /\ DensityStyles(baseLines).fontSize = "14pt"
    /\ DensityStyles(AllLines).fontSize = "12pt"
    /\ CountRank(CountProfile(baseLines)) = 0
    /\ CountRank(CountProfile(AllLines)) = 1
    /\ CountStyles(baseLines).fontSize = "14pt"
    /\ CountStyles(AllLines).fontSize = "11pt"

\* The pixels of Tailwind's text classes that the profiles use.
ScreenPx(textSize) ==
    CASE textSize = "text-[9px]" -> 9
      [] textSize = "text-[11px]" -> 11
      [] textSize = "text-xs" -> 12
      [] textSize = "text-sm" -> 14
      [] textSize = "text-base" -> 16
      [] textSize = "text-lg" -> 18
      [] textSize = "text-xl" -> 20

\* C22: every tier of the density scheme, and every count-based tier from
\* balanced to dense (the ultra-dense tier left aside), exports a body font of
\* at least 11pt and shows body text of at least 14px.
C22_ElevenPointFloor ==
    AllLines # <<>> =>
        /\ Number(DensityStyles(AllLines).fontSize) >= 11
        /\ ScreenPx(DensityProfile(AllLines).textSize) >= 14
        /\ CountRank(CountProfile(AllLines)) \in 2..4 =>
               /\ Number(CountStyles(AllLines).fontSize) >= 11
               /\ ScreenPx(CountProfile(AllLines).textSize) >= 14

\* A CSS length in mm or cm, such as "20mm" or "2.54cm", in hundredths of a
\* millimetre.
HundredthsOfMm(length) ==
    LET unit == SubSeq(length, Len(length) - 1, Len(length))
        digits == SubSeq(length, 1, Len(length) - 2)
        dot == indexOf(digits, ".", 1)
        whole == IF dot = 0 THEN digits ELSE SubSeq(digits, 1, dot - 1)
        decimals == IF dot = 0 THEN "" ELSE SubSeq(digits, dot + 1, Len(digits))
        hundredths == 100 * parseInt(whole)
                        + (IF Len(decimals) = 1 THEN 10 * parseInt(decimals)
                           ELSE parseInt(decimals))
    IN  IF unit = "cm" THEN 10 * hundredths ELSE hundredths

ScreenPadding(profile) == HundredthsOfMm(bracketed(profile.padding))

\* C23: in both revisions, a worksheet's export margin is the length of its
\* screen padding; of two worksheets whose tiers are ordered the denser one has
\* no larger padding and margin; and the densest tier's padding and margin are
\* strictly smaller than the shortest tier's.
C23_PaddingScalesAndIsMargin ==
    baseLines # <<>> =>
        /\ HundredthsOfMm(DensityStyles(AllLines).margin)
               = ScreenPadding(DensityProfile(AllLines))
        /\ HundredthsOfMm(CountStyles(AllLines).margin)
               = ScreenPadding(CountProfile(AllLines))
        /\ DensityRank(DensityProfile(AllLines)) >= DensityRank(DensityProfile(baseLines))
               => /\ ScreenPadding(DensityProfile(AllLines))
                         <= ScreenPadding(DensityProfile(baseLines))
                  /\ HundredthsOfMm(DensityStyles(AllLines).margin)
                         <= HundredthsOfMm(DensityStyles(baseLines).margin)
        /\ CountRank(CountProfile(AllLines)) >= CountRank(CountProfile(baseLines))
               => /\ ScreenPadding(CountProfile(AllLines))
                         <= ScreenPadding(CountProfile(baseLines))
                  /\ HundredthsOfMm(CountStyles(AllLines).margin)
                         <= HundredthsOfMm(CountStyles(baseLines).margin)
        /\ DensityRank(DensityProfile(AllLines)) = 2
               => /\ ScreenPadding(DensityProfile(AllLines)) < ScreenPadding(ShortSettings)
                  /\ HundredthsOfMm(DensityStyles(AllLines).margin)
                         < HundredthsOfMm(getWordStyles(ShortSettings).margin)
        /\ CountRank(CountProfile(AllLines)) = 5
               => /\ ScreenPadding(CountProfile(AllLines)) < ScreenPadding(VeryShortSettings)
                  /\ HundredthsOfMm(CountStyles(AllLines).margin)
                         < HundredthsOfMm(getWordStylesEarlier(VeryShortSettings).margin)

\* C24: for every worksheet, each profile value that the exporter looks up is
\* a key of the table it is looked up in: the text, title and artist sizes,
\* the line height and the image size in both revisions, and the tracking and
\* the column gap in the count-based revision, which has tables for them (a
\* bracketed line height is computed, not looked up).
C24_ProfileValuesMapped ==
    AllLines # <<>> =>
        /\ LET profile == DensityProfile(AllLines) IN
               /\ {profile.textSize, profile.titleSize, profile.artistSize}
                      \subseteq DOMAIN sizeMap
               /\ profile.lineHeight \in DOMAIN lhMap
               /\ profile.imageSize \in DOMAIN imgMap
        /\ LET profile == CountProfile(AllLines) IN
               /\ {profile.textSize, profile.titleSize, profile.artistSize}
                      \subseteq DOMAIN sizeMapEarlier
               /\ \/ profile.lineHeight \in DOMAIN lhMapEarlier
                  \/ includes(profile.lineHeight, "[")
               /\ profile.tracking \in DOMAIN trackMap
               /\ profile.imageSize \in DOMAIN imgMapEarlier
               /\ profile.colGap \in DOMAIN colGapMap

\* The table an attribute's value is looked up in by a revision's
\* getWordStyles; the empty function where the revision has no table for it.
LookupTable(revision, attribute) ==
    IF revision = "density"
    THEN CASE attribute \in {"textSize", "titleSize", "artistSize"} -> sizeMap
           [] attribute = "lineHeight" -> lhMap
           [] attribute = "imageSize" -> imgMap
           [] OTHER -> <<>>
    ELSE CASE attribute \in {"textSize", "titleSize", "artistSize"} -> sizeMapEarlier
           [] attribute = "lineHeight" -> lhMapEarlier
           [] attribute = "tracking" -> trackMap
           [] attribute = "imageSize" -> imgMapEarlier
           [] attribute = "colGap" -> colGapMap

\* The attributes of the given profile whose value is looked up in a table
\* that has no entry for it.
UnmappedAttributes ==
    LET revision == exportIn[1].revision
        settings == exportIn[1].settings
    IN  {a \in LookedUpAttributes :
            /\ LookupTable(revision, a) # <<>>
            /\ ~(revision = "count" /\ a = "lineHeight" /\ includes(settings[a], "["))
            /\ settings[a] \notin DOMAIN LookupTable(revision, a)}

\* C25: when getWordStyles is given a profile with a value that its table has
\* no entry for, it throws or writes to the console; it does not return
\* normally and silently.
C25_UnmappedValueSignalled ==
    (exportOut # <<>> /\ UnmappedAttributes # {}) =>
        exportOut[1].styles.threw \/ exportOut[1].console # <<>>

-----------------------------------------------------------------------------
(* Properties: C26 to C29, the session (Spec, SpecCover).                  *)

\* C26: whenever AppState is READY, the result is non-null and has a lines
\* array, and the worksheet view is shown.
C26_ReadyHasLines ==
    appState = READY =>
        /\ Truthy(result)
        /\ HasLinesArray(result)
        /\ WorksheetShown

\* C27: error is null whenever AppState is GENERATING or READY, and non-null
\* whenever AppState is ERROR.
C27_ErrorMatchesState ==
    /\ appState \in {GENERATING, READY} => error = NoError
    /\ appState = ERROR => error # NoError

\* C28: when a settled call brings the session to READY with its result, a
\* result with lines, the lyrics the call was issued with are the lyrics that
\* SongData holds.
C28_ReadyFromCurrentLyrics ==
    [][\A i \in DOMAIN inflight :
          (/\ AnsweredCall(i)
           /\ ~uiCrashed
           /\ ~generateClozeGame(inflight[i].response).threw
           /\ appState' = READY
           /\ result' = generateClozeGame(inflight[i].response).data
           /\ HasLinesArray(result'))
              => inflight[i].lyrics = songData'.originalLyrics]_vars

\* C29: once no read is pending, the cover is what the user's last image
\* action asks for: none after a removal, the data URL of the file chosen last
\* when that file was read; and a read that completes never leaves a session
\* that had a cover without one, as a failed read overwrites nothing.
C29_CoverFollowsLastAction ==
    [][/\ (readers' = {} /\ lastImageAction' = CoverRemoved)
              => songData'.coverImage = NoImage
       /\ (readers' = {} /\ lastImageAction' \in CoverFiles)
              => songData'.coverImage = DataUrl(lastImageAction')
       /\ (readers' # readers /\ readers' \subseteq readers
              /\ songData.coverImage # NoImage)
              => songData'.coverImage # NoImage]_vars

-----------------------------------------------------------------------------
(* Properties: C30, the request handlers (SpecHandler).                    *)

\* The statuses with which the request is to be rejected before any upstream
\* call: 405 for a method other than POST, 400 for missing or empty lyrics,
\* 500 when no API key is configured.
RejectionStatuses(req) ==
    (IF req.method # "POST" THEN {405} ELSE {})
        \cup (IF req.lyrics = <<>> THEN {400} ELSE {})
        \cup (IF ~aiConfigured THEN {500} ELSE {})

UpstreamFailed(reply) ==
    reply.outcome = "throw" \/ reply.kind \in {"empty", "invalid"}

\* C30: a handler that runs sends exactly one response; a request it is to
\* reject (method, lyrics, API key) gets the status of one of its grounds and
\* no upstream call, every other request causes exactly one upstream call; the
\* status is 200 only if that call returned non-empty text that parses as
\* JSON, and every upstream failure is answered 500 with an error message.
C30_HandlerResponses ==
    \A k \in 1..Len(postIn) :
        LET req == postIn[k]
            run == postOut[k]
            grounds == RejectionStatuses(req)
        IN  run.ran =>
              /\ Len(run.responses) = 1
              /\ grounds # {} =>
                     run.calls = 0 /\ run.responses[1].status \in grounds
              /\ grounds = {} => run.calls = 1
              /\ run.responses[1].status = 200 =>
                     /\ grounds = {}
                     /\ req.reply.outcome = "text"
                     /\ req.reply.kind = "json"
              /\ (grounds = {} /\ UpstreamFailed(req.reply)) =>
                     /\ run.responses[1].status = 500
                     /\ run.responses[1].value.error # ""

=============================================================================
